---- MODULE Spec2Model ----
(***************************************************************************)
(* Model of the treetime_validation scripts:                               *)
(*   - plot_simulated_data_tmrca_mu.py: the three CSV readers and          *)
(*     create_pivot_table;                                                 *)
(*   - generate_flu_subtrees_dataset_submit.py and                         *)
(*     generate_flu_missingDates_dataset_submit.py: the parameter sweeps.  *)
(*                                                                         *)
(* Floating-point columns are modelled as exact rationals <<num, den>>     *)
(* with den > 0 and gcd(num, den) = 1; the IEEE not-a-number is <<0, 0>>.  *)
(* A square root that is not rational is kept as the surd <<num, den, 2>>. *)
(***************************************************************************)
EXTENDS Integers, Sequences, FiniteSets, TLC

VARIABLES
    pc,              \* plotting script: "start", "loaded", "called", "repeated"
    df,              \* the data frame returned by a reader (sequence of rows)
    T_over_N,        \* argument of the last create_pivot_table call (None or a ratio)
    mean_or_median,  \* argument of the last create_pivot_table call
    res,             \* the pivot table returned by the last call (record of columns)
    outcome,         \* "none", "returned" or "raised" for the last call
    script,          \* the submission script being run: "subtrees", "missingDates", "none"
    CLUSTER,         \* the module-level CLUSTER flag of that script
    spc,             \* position of the script: "loop", "call" (inside sp.call), "done"
    pos,             \* the loop indices (outermost first, 0-based) of the sweep
    launched,        \* the argv lists handed to sp.call so far, in order
    nreturned,       \* how many sp.call invocations have returned
    status           \* the status the last sp.call returned (-1 before the first)

plotVars == <<pc, df, T_over_N, mean_or_median, res, outcome>>
submitVars == <<script, CLUSTER, spc, pos, launched, nreturned, status>>
vars == <<pc, df, T_over_N, mean_or_median, res, outcome,
          script, CLUSTER, spc, pos, launched, nreturned, status>>

(***************************************************************************)
(* Bounds of the model.                                                    *)
(***************************************************************************)
MaxRows == 3

(***************************************************************************)
(* Exact arithmetic standing for the float arithmetic of numpy / pandas.   *)
(***************************************************************************)
NaN == <<0, 0>>
None == <<>>

R(n) == <<n, 1>>

Abs(x) == IF x < 0 THEN -x ELSE x

RECURSIVE Gcd(_, _)
Gcd(a, b) == IF b = 0 THEN a ELSE Gcd(b, a % b)

Norm(n, d) ==
    IF d = 0 THEN NaN
    ELSE LET g == Gcd(Abs(n), Abs(d))
             s == IF d < 0 THEN -1 ELSE 1
         IN  <<(s * n) \div g, (s * d) \div g>>

IsNaN(a) == a[2] = 0

RAdd(a, b) == Norm(a[1] * b[2] + b[1] * a[2], a[2] * b[2])
RNeg(a) == <<-a[1], a[2]>>
RSub(a, b) == RAdd(a, RNeg(b))
RMul(a, b) == Norm(a[1] * b[1], a[2] * b[2])
RDiv(a, b) == Norm(a[1] * b[2], a[2] * b[1])

\* IEEE comparisons: every comparison with NaN is false.
REq(a, b) == ~IsNaN(a) /\ ~IsNaN(b) /\ a = b
RLt(a, b) == ~IsNaN(a) /\ ~IsNaN(b) /\ a[1] * b[2] < b[1] * a[2]

IsSquare(n) == \E k \in 0..n : k * k = n
ISqrt(n) == CHOOSE k \in 0..n : k * k = n

\* np.sqrt of a non-negative rational.
np_sqrt(a) ==
    IF IsNaN(a) THEN NaN
    ELSE IF IsSquare(a[1]) /\ IsSquare(a[2]) THEN <<ISqrt(a[1]), ISqrt(a[2])>>
    ELSE <<a[1], a[2], 2>>

RECURSIVE RSum(_)
RSum(s) == IF s = <<>> THEN R(0) ELSE RAdd(Head(s), RSum(Tail(s)))

(***************************************************************************)
(* numpy / pandas primitives used by create_pivot_table.                   *)
(***************************************************************************)
\* Sort order of np.sort and sort_values: ascending, NaN last.
SortLe(a, b) == IsNaN(b) \/ (~IsNaN(a) /\ ~RLt(b, a))

RECURSIVE InsertBy(_, _, _)
InsertBy(i, s, keys) ==
    IF s = <<>> THEN <<i>>
    ELSE IF SortLe(keys[i], keys[Head(s)]) THEN <<i>> \o s
    ELSE <<Head(s)>> \o InsertBy(i, Tail(s), keys)

RECURSIVE ArgSortFrom(_, _)
ArgSortFrom(keys, i) ==
    IF i > Len(keys) THEN <<>>
    ELSE InsertBy(i, ArgSortFrom(keys, i + 1), keys)

\* Positions of keys in ascending order (stable).
ArgSort(keys) == ArgSortFrom(keys, 1)

Take(s, perm) == [k \in 1..Len(perm) |-> s[perm[k]]]

np_sort(ar) == Take(ar, ArgSort(ar))

RECURSIVE BoolIndexFrom(_, _, _)
BoolIndexFrom(s, mask, i) ==
    IF i > Len(s) THEN <<>>
    ELSE (IF mask[i] THEN <<s[i]>> ELSE <<>>) \o BoolIndexFrom(s, mask, i + 1)

\* s[mask]: the entries of s where the boolean mask is True, in order.
BoolIndex(s, mask) == BoolIndexFrom(s, mask, 1)

\* mask.sum()
MaskSum(mask) == Cardinality({i \in 1..Len(mask) : mask[i]})

\* np.unique of numpy <= 1.16 (the script is Python 2): sort, then keep every
\* entry that differs (!=) from its predecessor; NaN != NaN keeps each NaN.
KeepDistinct(aux) ==
    BoolIndex(aux, [i \in 1..Len(aux) |-> i = 1 \/ ~REq(aux[i], aux[i - 1])])
\* Faulty variant: sorted, duplicates kept.
np_unique_all(ar) == np_sort(ar)
np_unique(ar) == KeepDistinct(np_sort(ar))

np_mean(x) == RDiv(RSum(x), R(Len(x)))

\* np.std: sqrt(mean(abs(x - x.mean())**2)), ddof = 0.
StdAbout(x, m) ==
    np_sqrt(np_mean([i \in 1..Len(x) |-> RMul(RSub(x[i], m), RSub(x[i], m))]))
np_std(x) == StdAbout(x, np_mean(x))

\* np.percentile(x, q), linear interpolation between the closest ranks:
\* index q/100 * (n - 1) into the sorted data, 0-based.
Interpolate(s, lo, hi, f) == RAdd(RMul(s[lo], RSub(R(1), f)), RMul(s[hi], f))
PercentileOfSorted(s, q) ==
    Interpolate(s,
                (((Len(s) - 1) * q) \div 100) + 1,
                IF (((Len(s) - 1) * q) \div 100) + 2 <= Len(s)
                THEN (((Len(s) - 1) * q) \div 100) + 2 ELSE Len(s),
                Norm(((Len(s) - 1) * q) % 100, 100))
np_percentile(x, q) == PercentileOfSorted(np_sort(x), q)

\* np.median: mean of the middle element(s) of the sorted data.
MedianOfSorted(s) ==
    IF Len(s) % 2 = 1 THEN s[(Len(s) + 1) \div 2]
    ELSE np_mean(<<s[Len(s) \div 2], s[(Len(s) \div 2) + 1]>>)
np_median(x) == MedianOfSorted(np_sort(x))

\* Series.sort_values(inplace=True) on a series of floats.
sort_values(series) == np_sort(series)

Column(DF, c) == [i \in 1..Len(DF) |-> DF[i][c]]

\* pandas.DataFrame(dict of columns): raises ValueError unless all columns
\* have the same length.
NoTable == <<>>
ColumnNames == {"Nmu", "dMu_mean", "dMu_err", "dTmrca_mean", "dTmrca_err"}
pandas_DataFrame(cols) ==
    IF \A c \in DOMAIN cols : Len(cols[c]) = Len(cols.Nmu)
    THEN [raised |-> FALSE, frame |-> cols]
    ELSE [raised |-> TRUE, frame |-> NoTable]

\* res.sort_values(by='Nmu'): rows reordered ascending by the Nmu column.
Reorder(frame, perm) == [c \in DOMAIN frame |-> Take(frame[c], perm)]
\* Faulty variant: descending order.
frame_sort_values_desc(frame) ==
    Reorder(frame, ArgSort([i \in 1..Len(frame.Nmu) |-> RNeg(frame.Nmu[i])]))
frame_sort_values(frame) == Reorder(frame, ArgSort(frame.Nmu))

(***************************************************************************)
(* create_pivot_table (plot_simulated_data_tmrca_mu.py, lines 101-184).    *)
(***************************************************************************)
\* Faulty variant: the filter is not applied.
FilterNone(d, r) == d
\* Lines 134-137: the boolean-indexed selection (on the true quotient T / N)
\* builds a new frame; without a filter DF is the caller's frame itself.
FilterFrame(d, r) ==
    IF r # None
    THEN BoolIndex(d, [i \in 1..Len(d) |-> REq(RDiv(R(d[i]["T"]), R(d[i]["N"])), r)])
    ELSE d

\* Lines 139-145: state of the group loop before its first iteration.
LoopStart(DF, N_MUS) ==
    [DF |-> DF,
     N_MUS |-> N_MUS,
     N_MUS_idxs |-> [i \in 1..Len(N_MUS) |-> TRUE],
     mu_mean |-> <<>>, mu_err |-> <<>>,
     tmrca_mean |-> <<>>, tmrca_err |-> <<>>]
LoopInit(DF) == LoopStart(DF, np_unique(Column(DF, "Nmu")))

\* Line 148: idxs = DF.Nmu == N_MU
GroupMask(DF, N_MU) == [i \in 1..Len(DF) |-> REq(DF[i]["Nmu"], N_MU)]

\* Faulty variant: the candidate is skipped without being flagged.
KeepEmpty(st, idx) == st
\* Lines 149-151: a candidate with no matching row is flagged and skipped.
DropEmpty(st, idx) == [st EXCEPT !.N_MUS_idxs[idx] = FALSE]

\* Line 153: -(Sim_mu - mu) / Sim_mu, row by row.
RelativeError(sim, mu) ==
    [i \in 1..Len(sim) |-> RDiv(RNeg(RSub(sim[i], mu[i])), sim[i])]

\* Line 157: dTmrca / N, row by row.
PerN(dT, N) == [i \in 1..Len(dT) |-> RDiv(dT[i], R(N[i]))]

\* Faulty variant: the in-place sort is applied to the frame, by its mu column.
Derive_dMu_SortFrame(DF, idxs) ==
    [DF |-> Take(DF, ArgSort(Column(DF, "mu"))),
     series |-> sort_values(RelativeError(BoolIndex(Column(DF, "Sim_mu"), idxs),
                                          BoolIndex(Column(DF, "mu"), idxs)))]
\* Lines 153-154: dMu is a freshly derived series; sorting it in place
\* does not touch DF.
Derive_dMu(DF, idxs) ==
    [DF |-> DF,
     series |-> sort_values(RelativeError(BoolIndex(Column(DF, "Sim_mu"), idxs),
                                          BoolIndex(Column(DF, "mu"), idxs)))]

\* Lines 157-158: likewise for dTmrca / N.
Derive_dTmrca(DF, idxs) ==
    [DF |-> DF,
     series |-> sort_values(PerN(BoolIndex(Column(DF, "dTmrca"), idxs),
                                 BoolIndex(Column(DF, "N"), idxs)))]

\* Faulty variant: the spread estimators of the two branches exchanged.
GroupStatsMixed(dMu, dTmrca, m) ==
    IF m = "mean"
    THEN [mu_mean |-> np_mean(dMu),
          mu_err |-> RSub(np_percentile(dMu, 75), np_percentile(dMu, 25)),
          tmrca_mean |-> np_mean(dTmrca),
          tmrca_err |-> RSub(np_percentile(dTmrca, 75), np_percentile(dTmrca, 25))]
    ELSE [mu_err |-> np_std(dMu),
          mu_mean |-> np_median(dMu),
          tmrca_err |-> np_std(dTmrca),
          tmrca_mean |-> np_median(dTmrca)]
\* Lines 161-173: the statistics of one group.  Every method other than
\* "mean" takes the else branch.
GroupStats(dMu, dTmrca, m) ==
    IF m = "mean"
    THEN [mu_mean |-> np_mean(dMu),
          mu_err |-> np_std(dMu),
          tmrca_mean |-> np_mean(dTmrca),
          tmrca_err |-> np_std(dTmrca)]
    ELSE [mu_err |-> RSub(np_percentile(dMu, 75), np_percentile(dMu, 25)),
          mu_mean |-> np_median(dMu),
          tmrca_err |-> RSub(np_percentile(dTmrca, 75), np_percentile(dTmrca, 25)),
          tmrca_mean |-> np_median(dTmrca)]

\* The appends of lines 162-173.
AppendStats(st, DF, g) ==
    [st EXCEPT !.DF = DF,
               !.mu_mean = Append(@, g.mu_mean),
               !.mu_err = Append(@, g.mu_err),
               !.tmrca_mean = Append(@, g.tmrca_mean),
               !.tmrca_err = Append(@, g.tmrca_err)]

WithSeries(st, a, b, m) == AppendStats(st, b.DF, GroupStats(a.series, b.series, m))
With_dMu(st, a, idxs, m) == WithSeries(st, a, Derive_dTmrca(a.DF, idxs), m)

\* Lines 147-173: one iteration of the group loop.
GroupStep(st, idx, idxs, m) ==
    IF MaskSum(idxs) = 0 THEN DropEmpty(st, idx)
    ELSE With_dMu(st, Derive_dMu(st.DF, idxs), idxs, m)
LoopBody(st, idx, m) == GroupStep(st, idx, GroupMask(st.DF, st.N_MUS[idx]), m)

RECURSIVE Loop(_, _, _)
Loop(st, idx, m) ==
    IF idx > Len(st.N_MUS) THEN st ELSE Loop(LoopBody(st, idx, m), idx + 1, m)

\* Lines 176-182: the frame built from the key column and the four lists.
BuildFrame(st) ==
    pandas_DataFrame([Nmu |-> BoolIndex(st.N_MUS, st.N_MUS_idxs),
                      dMu_mean |-> st.mu_mean,
                      dMu_err |-> st.mu_err,
                      dTmrca_mean |-> st.tmrca_mean,
                      dTmrca_err |-> st.tmrca_err])

\* Faulty variant: an empty working subset is an error.
ReturnEmptyRaises(made, st, d, r) ==
    [raised |-> made.raised \/ Len(st.DF) = 0,
     res |-> IF made.raised \/ Len(st.DF) = 0 THEN NoTable
             ELSE frame_sort_values(made.frame),
     df |-> IF r = None THEN st.DF ELSE d]
\* Lines 183-184, and the caller's frame as the call leaves it: DF is the
\* caller's frame itself when no filter is given (line 137).
ReturnSorted(made, st, d, r) ==
    [raised |-> made.raised,
     res |-> IF made.raised THEN NoTable ELSE frame_sort_values(made.frame),
     df |-> IF r = None THEN st.DF ELSE d]

Finished(st, d, r) == ReturnSorted(BuildFrame(st), st, d, r)

\* The whole call.
create_pivot_table(d, r, m) == Finished(Loop(LoopInit(FilterFrame(d, r)), 1, m), d, r)

(***************************************************************************)
(* The CSV readers (lines 25-99).  A File name is modelled by its length   *)
(* and by the parameter values that the readers parse out of it.           *)
(***************************************************************************)
NValues == {1, 2}
SimMuValues == {1, 2}
MuValues == {1, 2}
TmrcaValues == {1, 2}

GoodFiles ==
    {[length |-> 40, N |-> n, Ns |-> 1, Ts |-> 2, Sim_mu |-> R(s)] :
        n \in NValues, s \in SimMuValues}
RunParameters ==
    {x \in GoodFiles \X TmrcaValues \X MuValues :
        (x[1].N + x[1].Sim_mu[1] + x[2] + x[3]) % 2 = 0}
FailedFile == [length |-> 3, N |-> 0, Ns |-> 0, Ts |-> 0, Sim_mu |-> NaN]

\* The rows a results file may hold: a half fraction of the 2^4 combinations
\* of (N, Sim_mu, mu, Tmrca), in which any three of the four vary freely,
\* plus a run with a poor fit (R <= 0.1) and a failed run (short File).
TreeTimeCsvRows ==
    {[File |-> x[1], Sim_Tmrca |-> R(1), Tmrca |-> R(x[2]), mu |-> R(x[3]),
      R |-> R(1)] : x \in RunParameters}
    \cup {[File |-> CHOOSE f \in GoodFiles : TRUE,
           Sim_Tmrca |-> R(1), Tmrca |-> R(2), mu |-> R(2), R |-> R(0)],
          [File |-> FailedFile,
           Sim_Tmrca |-> NaN, Tmrca |-> NaN, mu |-> NaN, R |-> R(1)]}

LsdCsvRows ==
    {[File |-> x[1], Sim_Tmrca |-> R(1), Tmrca |-> R(x[2]), mu |-> R(x[3])] :
        x \in RunParameters}
    \cup {[File |-> FailedFile, Sim_Tmrca |-> NaN, Tmrca |-> NaN, mu |-> NaN]}

\* The BEAST table carries N, T, Sim_mu and Nmu as columns of the file; a
\* missing Nmu entry is read as NaN.
BeastCsvRows ==
    {[File |-> CHOOSE f \in GoodFiles : TRUE, N |-> n, Sim_Tmrca |-> R(1),
      Sim_mu |-> R(1), T |-> 2, Nmu |-> k, Tmrca |-> R(2), mu |-> R(m)] :
        n \in NValues, k \in {R(2), NaN}, m \in MuValues}
    \cup {[File |-> FailedFile, N |-> 1, Sim_Tmrca |-> NaN, Sim_mu |-> NaN,
           T |-> 2, Nmu |-> NaN, Tmrca |-> NaN, mu |-> NaN]}

Csv(rows) == UNION {[1..n -> rows] : n \in 0..MaxRows}

\* The columns create_pivot_table reads, as the readers leave them.
TreeTimeRow(x) ==
    [N |-> x.File.N,
     T |-> x.File.Ns * x.File.Ts,
     Sim_mu |-> x.File.Sim_mu,
     mu |-> x.mu,
     dTmrca |-> RNeg(RSub(x.Sim_Tmrca, x.Tmrca)),
     Nmu |-> RMul(R(x.File.N), x.File.Sim_mu)]

BeastRow(x) ==
    [N |-> x.N,
     T |-> x.T,
     Sim_mu |-> x.Sim_mu,
     mu |-> x.mu,
     dTmrca |-> RNeg(RSub(x.Sim_Tmrca, x.Tmrca)),
     Nmu |-> x.Nmu]

\* df[[len(str(k)) > 10 for k in df.File]]
NamedRuns(csv) == BoolIndex(csv, [i \in 1..Len(csv) |-> csv[i].File.length > 10])

\* df[df.R > 0.1]
FittedRuns(t) == BoolIndex(t, [i \in 1..Len(t) |-> RLt(<<1, 10>>, t[i].R)])

TreeTimeColumns(t) == [i \in 1..Len(t) |-> TreeTimeRow(t[i])]
BeastColumns(t) == [i \in 1..Len(t) |-> BeastRow(t[i])]

read_treetime_results_csv(csv) == TreeTimeColumns(FittedRuns(NamedRuns(csv)))
read_lsd_results_csv(csv) == TreeTimeColumns(NamedRuns(csv))
read_beast_results_csv(csv) == BeastColumns(NamedRuns(csv))

(***************************************************************************)
(* The plotting script as a state machine.                                 *)
(***************************************************************************)
Ratios == {None, R(2)}
Methods == {"mean", "median", "mode"}

InitPlot ==
    /\ pc = "start"
    /\ df = <<>>
    /\ T_over_N = None
    /\ mean_or_median = "median"
    /\ res = NoTable
    /\ outcome = "none"

\* treetime_df = read_treetime_results_csv(treetime_csv)
ReadTreeTime ==
    /\ pc = "start"
    /\ \E csv \in Csv(TreeTimeCsvRows) : df' = read_treetime_results_csv(csv)
    /\ pc' = "loaded"
    /\ UNCHANGED <<T_over_N, mean_or_median, res, outcome, submitVars>>

\* lsd_df = read_lsd_results_csv(lsd_csv)
ReadLsd ==
    /\ pc = "start"
    /\ \E csv \in Csv(LsdCsvRows) : df' = read_lsd_results_csv(csv)
    /\ pc' = "loaded"
    /\ UNCHANGED <<T_over_N, mean_or_median, res, outcome, submitVars>>

\* beast_df = read_beast_results_csv(beast_csv)
ReadBeast ==
    /\ pc = "start"
    /\ \E csv \in Csv(BeastCsvRows) : df' = read_beast_results_csv(csv)
    /\ pc' = "loaded"
    /\ UNCHANGED <<T_over_N, mean_or_median, res, outcome, submitVars>>

CallEnds(out, r, m) ==
    /\ T_over_N' = r
    /\ mean_or_median' = m
    /\ outcome' = IF out.raised THEN "raised" ELSE "returned"
    /\ res' = out.res
    /\ df' = out.df
    /\ UNCHANGED submitVars

Called(r, m) == CallEnds(create_pivot_table(df, r, m), r, m)

\* The first call on a frame, with any arguments.
CreatePivotTable ==
    /\ pc = "loaded"
    /\ pc' = "called"
    /\ \E r \in Ratios, m \in Methods : Called(r, m)

\* The same call made again on the frame as the previous call left it.
RepeatCall ==
    /\ pc \in {"called", "repeated"}
    /\ pc' = "repeated"
    /\ Called(T_over_N, mean_or_median)

NextPlot == ReadTreeTime \/ ReadLsd \/ ReadBeast \/ CreatePivotTable \/ RepeatCall

(***************************************************************************)
(* The job-submission scripts.                                             *)
(***************************************************************************)
Digits == <<"0", "1", "2", "3", "4", "5", "6", "7", "8", "9">>

\* str() of a non-negative integer.
RECURSIVE str(_)
str(n) == IF n < 10 THEN Digits[n + 1] ELSE str(n \div 10) \o Digits[(n % 10) + 1]

\* The digits after the decimal point of num/den, num < den, den | 10^k.
RECURSIVE FracDigits(_, _)
FracDigits(num, den) ==
    IF num = 0 THEN ""
    ELSE Digits[((num * 10) \div den) + 1] \o FracDigits((num * 10) % den, den)

\* str() of a non-negative float with a finite decimal expansion.
str_float(q) ==
    str(q[1] \div q[2]) \o "." \o
    (IF q[1] % q[2] = 0 THEN "0" ELSE FracDigits(q[1] % q[2], q[2]))

\* generate_flu_subtrees_dataset_submit.py
n_iter == 20
N_leaves_array == <<20, 50, 100, 200, 500, 750, 1000, 1250, 1500, 1750, 2000>>
subtrees_out_dir == "./flu_H3N2/subtree_samples/2017-04-20"
treetime_res_file == "./flu_H3N2/subtree_samples/2017-04-20_treetime_res.csv"
lsd_res_file == "./flu_H3N2/subtree_samples/2017-04-20_lsd_res.csv"

\* generate_flu_missingDates_dataset_submit.py
nseqs == <<100>>
dates_knonwn_fraction == <<<<1, 2>>>>
Npoints == 1
resfile_fmt(n) == "./flu_H3N2/missing_dates/./H3N2_HA_2011_2013_" \o str(n) \o "seqs_res.csv"
resfile_dates_fmt(n) ==
    "./flu_H3N2/missing_dates/./H3N2_HA_2011_2013_" \o str(n) \o "seqs_dates_res.csv"
treefile_fmt(n) ==
    "./flu_H3N2/missing_dates/subtrees/./H3N2_HA_2011_2013_" \o str(n) \o "seqs.nwk"
alnfile_fmt(n) ==
    "./flu_H3N2/missing_dates/subtrees/./H3N2_HA_2011_2013_" \o str(n) \o "seqs.fasta"

Scripts == {"subtrees", "missingDates"}

\* The lengths of the nested loops, outermost first.
Dims(s) ==
    IF s = "subtrees" THEN <<Len(N_leaves_array), n_iter>>
    ELSE <<Len(nseqs), Len(dates_knonwn_fraction), Npoints>>

\* The for statements: the loop indices after the body ran at p.
RECURSIVE Incr(_, _, _)
Incr(p, dims, k) ==
    IF k = 1 THEN [p EXCEPT ![1] = @ + 1]
    ELSE IF p[k] + 1 < dims[k] THEN [p EXCEPT ![k] = @ + 1]
    ELSE Incr([p EXCEPT ![k] = 0], dims, k - 1)

\* Faulty variant: every other combination is passed over.
NextPosSkip(p, dims) == Incr(Incr(p, dims, Len(dims)), dims, Len(dims))
NextPos(p, dims) == Incr(p, dims, Len(dims))

Exhausted(p, dims) == p[1] >= dims[1] \/ \E k \in 1..Len(dims) : dims[k] = 0

\* The command prefix chosen by the CLUSTER flag.
CallPrefix(s, cluster) ==
    IF s = "subtrees"
    THEN IF cluster
         THEN <<"qsub", "-cwd", "-b", "y", "-l", "h_rt=23:59:0", "-l", "h_vmem=50G",
                "./generate_flu_subtrees_dataset_run.py">>
         ELSE <<"./generate_flu_subtrees_dataset_run.py">>
    ELSE IF cluster
         THEN <<"qsub", "-cwd", "-b", "y", "-l", "h_rt=1:59:0", "-l", "h_vmem=3G",
                "./generate_flu_missingDates_dataset_run.py">>
         ELSE <<"./generate_flu_missingDates_dataset_run.py">>

\* The argument list built for the loop indices p.
Arguments(s, p) ==
    IF s = "subtrees"
    THEN <<str(N_leaves_array[p[1] + 1]), subtrees_out_dir, str(p[2]),
           treetime_res_file, lsd_res_file>>
    ELSE <<str_float(dates_knonwn_fraction[p[2] + 1]),
           alnfile_fmt(nseqs[p[1] + 1]), treefile_fmt(nseqs[p[1] + 1]),
           resfile_fmt(nseqs[p[1] + 1]), resfile_dates_fmt(nseqs[p[1] + 1])>>

\* call.extend(arguments)
BuildCall(s, cluster, p) == CallPrefix(s, cluster) \o Arguments(s, p)

\* Faulty variant: a non-zero status ends the sweep.
AfterCallStopOnFailure(rc, p, dims) ==
    IF rc # 0 THEN [spc |-> "done", pos |-> p]
    ELSE [spc |-> "loop", pos |-> NextPos(p, dims)]
\* What follows the return of sp.call: its status is dropped and the loops go on.
AfterCall(rc, p, dims) == [spc |-> "loop", pos |-> NextPos(p, dims)]

Statuses == {0, 1}

InitSubmit ==
    /\ script \in Scripts
    /\ CLUSTER \in BOOLEAN
    /\ spc = "loop"
    /\ pos = [k \in 1..Len(Dims(script)) |-> 0]
    /\ launched = <<>>
    /\ nreturned = 0
    /\ status = -1

\* Lines 29-50 / 30-47: build the command and enter sp.call.
Launch ==
    /\ spc = "loop"
    /\ ~Exhausted(pos, Dims(script))
    /\ launched' = Append(launched, BuildCall(script, CLUSTER, pos))
    /\ spc' = "call"
    /\ UNCHANGED <<script, CLUSTER, pos, nreturned, status, plotVars>>

\* sp.call returns the exit status of the command (a command that cannot be
\* started at all makes sp.call raise instead; that case is not modelled).
Return ==
    /\ spc = "call"
    /\ \E rc \in Statuses :
         LET n == AfterCall(rc, pos, Dims(script))
         IN  /\ status' = rc
             /\ spc' = n.spc
             /\ pos' = n.pos
    /\ nreturned' = nreturned + 1
    /\ UNCHANGED <<script, CLUSTER, launched, plotVars>>

\* The outermost loop is exhausted: the script ends.
Finish ==
    /\ spc = "loop"
    /\ Exhausted(pos, Dims(script))
    /\ spc' = "done"
    /\ UNCHANGED <<script, CLUSTER, pos, launched, nreturned, status, plotVars>>

NextSubmit == Launch \/ Return \/ Finish

IdleSubmit ==
    /\ script = "none"
    /\ CLUSTER = TRUE
    /\ spc = "done"
    /\ pos = <<>>
    /\ launched = <<>>
    /\ nreturned = 0
    /\ status = -1

(***************************************************************************)
(* Specifications.                                                         *)
(***************************************************************************)
Init == InitPlot /\ IdleSubmit
Next == NextPlot
Spec == Init /\ [][Next]_vars

SubmitInit == InitPlot /\ InitSubmit
SubmitSpec == SubmitInit /\ [][NextSubmit]_vars

\* The interpreter runs the script to its end and every launched command
\* returns.
SubmitFairSpec == SubmitInit /\ [][NextSubmit]_vars /\ WF_vars(NextSubmit)

(***************************************************************************)
(* Reference notions for the properties of create_pivot_table, stated on   *)
(* sets of row positions of df rather than on sorted series.               *)
(***************************************************************************)
Rows == 1..Len(df)

\* The rows that pass the T/N filter of the last call: T/N = r, i.e. T = r * N.
Participating ==
    {i \in Rows : T_over_N = None \/ df[i]["T"] * T_over_N[2] = T_over_N[1] * df[i]["N"]}

\* The participating rows whose Nmu column equals the key k.
Members(k) == {i \in Participating : ~IsNaN(k) /\ df[i]["Nmu"] = k}

\* The per-row errors e_mu = (mu - Sim_mu) / Sim_mu and e_t = dTmrca / N.
EMu == [i \in Rows |-> RDiv(RSub(df[i]["mu"], df[i]["Sim_mu"]), df[i]["Sim_mu"])]
ET == [i \in Rows |-> RDiv(df[i]["dTmrca"], R(df[i]["N"]))]

RECURSIVE SumOver(_, _)
SumOver(I, val) ==
    IF I = {} THEN R(0)
    ELSE LET i == CHOOSE j \in I : TRUE
         IN  RAdd(val[i], SumOver(I \ {i}, val))

MeanOver(I, val) == RDiv(SumOver(I, val), R(Cardinality(I)))

\* The population variance: the mean squared distance from the mean.
VarianceOver(I, val) ==
    LET mean == MeanOver(I, val)
    IN  MeanOver(I, [i \in I |-> RMul(RSub(val[i], mean), RSub(val[i], mean))])

\* s is the non-negative square root of v.
IsSqrtOf(s, v) ==
    IF Len(s) = 3 THEN <<s[1], s[2]>> = v
    ELSE s[1] >= 0 /\ RMul(s, s) = v

\* The k-th smallest value (k = 1 is the minimum), with multiplicity.
Kth(I, val, k) ==
    CHOOSE v \in {val[i] : i \in I} :
        /\ Cardinality({i \in I : RLt(val[i], v)}) < k
        /\ k <= Cardinality({i \in I : ~RLt(v, val[i])})

MedianOver(I, val) ==
    LET n == Cardinality(I)
    IN  IF n % 2 = 1 THEN Kth(I, val, (n + 1) \div 2)
        ELSE RDiv(RAdd(Kth(I, val, n \div 2), Kth(I, val, (n \div 2) + 1)), R(2))

\* The q-th percentile with linear interpolation between closest ranks.
QuantileOver(I, val, q) ==
    LET n == Cardinality(I)
        below == ((n - 1) * q) \div 100
        part == ((n - 1) * q) % 100
    IN  IF part = 0 THEN Kth(I, val, below + 1)
        ELSE RAdd(Kth(I, val, below + 1),
                  RMul(<<part, 100>>,
                       RSub(Kth(I, val, below + 2), Kth(I, val, below + 1))))

IQROver(I, val) == RSub(QuantileOver(I, val, 75), QuantileOver(I, val, 25))

Returned == pc \in {"called", "repeated"} /\ outcome = "returned"
OutRows == 1..Len(res.Nmu)

(***************************************************************************)
(* Properties of create_pivot_table.                                       *)
(***************************************************************************)
\* The rows of d whose T/N equals r, in order.
Matching(d, r) == SelectSeq(d, LAMBDA x : x["T"] * r[2] = r[1] * x["N"])

\* C1: with T_over_N = r the returned table is the one obtained from the
\* table with every record of T/N # r removed, so no such record contributes
\* to a key or a statistic; with T_over_N = None every record's Nmu is a key.
C1_FilterCorrectness ==
    Returned =>
        IF T_over_N # None
        THEN /\ res = create_pivot_table(Matching(df, T_over_N), None, mean_or_median).res
             /\ \A k \in OutRows : \E i \in Participating : df[i]["Nmu"] = res.Nmu[k]
        ELSE \A i \in Rows :
                ~IsNaN(df[i]["Nmu"]) => \E k \in OutRows : res.Nmu[k] = df[i]["Nmu"]

\* A filtered call on a table holding records on both sides of the filter,
\* among them a discarded record whose Nmu is also the key of a kept one.
C1_Witness ==
    /\ Returned
    /\ T_over_N # None
    /\ \E i \in Participating, j \in Rows \ Participating :
          df[i]["Nmu"] = df[j]["Nmu"] /\ ~IsNaN(df[i]["Nmu"])

C3_SortedByNmu ==
    Returned =>
        \A k \in OutRows : k + 1 \in OutRows => ~RLt(res.Nmu[k + 1], res.Nmu[k])
                                                  /\ ~IsNaN(res.Nmu[k])
                                                  /\ ~IsNaN(res.Nmu[k + 1])

\* A table whose keys first occur in descending order gives three rows.
C3_Witness ==
    /\ Returned
    /\ Len(res.Nmu) = 3
    /\ \E i, j \in Participating : i < j /\ RLt(df[j]["Nmu"], df[i]["Nmu"])

\* C4: per group, "mean" gives the arithmetic mean and the population
\* standard deviation, "median" gives the median and the interquartile
\* range, for e_mu and for e_t alike.
C4_MethodLinkage ==
    Returned =>
        \A k \in OutRows :
            LET G == Members(res.Nmu[k])
            IN  /\ mean_or_median = "mean" =>
                    /\ res.dMu_mean[k] = MeanOver(G, EMu)
                    /\ IsSqrtOf(res.dMu_err[k], VarianceOver(G, EMu))
                    /\ res.dTmrca_mean[k] = MeanOver(G, ET)
                    /\ IsSqrtOf(res.dTmrca_err[k], VarianceOver(G, ET))
                /\ mean_or_median = "median" =>
                    /\ res.dMu_mean[k] = MedianOver(G, EMu)
                    /\ res.dMu_err[k] = IQROver(G, EMu)
                    /\ res.dTmrca_mean[k] = MedianOver(G, ET)
                    /\ res.dTmrca_err[k] = IQROver(G, ET)

\* A "median" call on a group in which the mean differs from the median and
\* the standard deviation from the interquartile range, for both quantities.
C4_Witness ==
    /\ Returned
    /\ mean_or_median = "median"
    /\ \E k \in OutRows :
          LET G == Members(res.Nmu[k])
          IN  /\ Cardinality(G) >= 3
              /\ MeanOver(G, EMu) # MedianOver(G, EMu)
              /\ MeanOver(G, ET) # MedianOver(G, ET)
              /\ ~IsSqrtOf(res.dMu_err[k], VarianceOver(G, EMu))
              /\ ~IsSqrtOf(res.dTmrca_err[k], VarianceOver(G, ET))

\* C5 as stated: a method other than "mean" and "median" makes the call fail
\* and no table is produced.
C5_InvalidMethodRejected ==
    (pc \in {"called", "repeated"} /\ mean_or_median \notin {"mean", "median"})
        => (outcome = "raised" /\ res = NoTable)

\* C6: when no record passes the filter (or the table has no rows) the call
\* returns a table with the five output columns and no rows.
C6_EmptySubset ==
    (pc \in {"called", "repeated"} /\ Participating = {}) =>
        /\ outcome = "returned"
        /\ DOMAIN res = ColumnNames
        /\ \A c \in ColumnNames : res[c] = <<>>

\* A filtered call on a table that has rows, none of which passes.
C6_Witness ==
    /\ pc \in {"called", "repeated"}
    /\ T_over_N # None
    /\ Len(df) >= 2
    /\ Participating = {}

\* C7: a call leaves the input table as it was, and the same call made again
\* returns the same table.
C7_Purity ==
    [][pc' \in {"called", "repeated"} =>
          /\ df' = df
          /\ pc' = "repeated" => (res' = res /\ outcome' = outcome)]_vars

\* A second, unfiltered call on a table whose rows are not in the order of
\* any of the sorted series.
C7_Witness ==
    /\ pc = "repeated"
    /\ outcome = "returned"
    /\ T_over_N = None
    /\ \E i, j \in Rows :
          /\ i < j
          /\ df[i]["Nmu"] = df[j]["Nmu"]
          /\ ~IsNaN(df[i]["Nmu"])
          /\ RLt(df[j]["mu"], df[i]["mu"])
          /\ RLt(EMu[j], EMu[i])
          /\ RLt(ET[j], ET[i])

\* C8: the call returns; every key has at least one filtered record, so a
\* candidate without one (a NaN) is absent; the five columns have one length;
\* and the statistics of a row are those of the filtered records of its key.
C8_KeyStatisticAlignment ==
    pc \in {"called", "repeated"} =>
        /\ outcome = "returned"
        /\ \A c \in ColumnNames : Len(res[c]) = Len(res.Nmu)
        /\ \A k \in OutRows :
              LET G == Members(res.Nmu[k])
              IN  /\ G # {}
                  /\ res.dMu_mean[k] =
                        IF mean_or_median = "mean" THEN MeanOver(G, EMu)
                        ELSE MedianOver(G, EMu)
                  /\ res.dTmrca_mean[k] =
                        IF mean_or_median = "mean" THEN MeanOver(G, ET)
                        ELSE MedianOver(G, ET)
                  /\ mean_or_median # "mean" =>
                        /\ res.dMu_err[k] = IQROver(G, EMu)
                        /\ res.dTmrca_err[k] = IQROver(G, ET)
                  /\ mean_or_median = "mean" =>
                        /\ IsSqrtOf(res.dMu_err[k], VarianceOver(G, EMu))
                        /\ IsSqrtOf(res.dTmrca_err[k], VarianceOver(G, ET))

\* A table with a record of no key (NaN) between two records of one key with
\* different errors: the NaN candidate is dropped and one row results.
C8_Witness ==
    /\ Returned
    /\ Len(res.Nmu) = 1
    /\ \E i, j, l \in Participating :
          /\ i < j /\ j < l
          /\ IsNaN(df[j]["Nmu"])
          /\ ~IsNaN(df[i]["Nmu"])
          /\ ~IsNaN(df[l]["Nmu"])
          /\ EMu[i] # EMu[l]

(***************************************************************************)
(* Properties of the job-submission scripts.                               *)
(***************************************************************************)
\* The number of parameter combinations of the sweep.
Total ==
    IF script = "subtrees" THEN Len(N_leaves_array) * n_iter
    ELSE Len(nseqs) * Len(dates_knonwn_fraction) * Npoints

\* The k-th combination in nested-loop order, k = 1 the first: the outer
\* parameter varies slowest, the inner index runs upward.
Combination(k) ==
    IF script = "subtrees"
    THEN [N_leaves |-> N_leaves_array[((k - 1) \div n_iter) + 1],
          iteration |-> (k - 1) % n_iter]
    ELSE [nseq |-> nseqs[((k - 1) \div (Len(dates_knonwn_fraction) * Npoints)) + 1],
          frac |-> dates_knonwn_fraction[
                      (((k - 1) \div Npoints) % Len(dates_knonwn_fraction)) + 1],
          point |-> (k - 1) % Npoints]

\* The argument list the k-th combination is launched with.
ArgumentsOf(k) ==
    LET c == Combination(k)
    IN  IF script = "subtrees"
        THEN <<str(c.N_leaves), "./flu_H3N2/subtree_samples/2017-04-20",
               str(c.iteration),
               "./flu_H3N2/subtree_samples/2017-04-20_treetime_res.csv",
               "./flu_H3N2/subtree_samples/2017-04-20_lsd_res.csv">>
        ELSE <<str_float(c.frac), alnfile_fmt(c.nseq), treefile_fmt(c.nseq),
               resfile_fmt(c.nseq), resfile_dates_fmt(c.nseq)>>

RunScript ==
    IF script = "subtrees" THEN "./generate_flu_subtrees_dataset_run.py"
    ELSE "./generate_flu_missingDates_dataset_run.py"

\* The loop indices at which the k-th combination is launched.
IndicesOf(k) ==
    IF script = "subtrees" THEN <<(k - 1) \div n_iter, (k - 1) % n_iter>>
    ELSE <<(k - 1) \div (Len(dates_knonwn_fraction) * Npoints),
           ((k - 1) \div Npoints) % Len(dates_knonwn_fraction),
           (k - 1) % Npoints>>

\* C9: the k-th launch is the k-th parameter combination, so that at the end
\* every combination has been launched exactly once; the CLUSTER flag decides
\* only what precedes the five arguments (the qsub wrapper or the bare script).
C9_OneLaunchPerCombination ==
    /\ Len(launched) <= Total
    /\ spc = "done" => Len(launched) = Total
    /\ \A k \in 1..Len(launched) :
          LET argv == launched[k]
              n == Len(argv)
          IN  /\ n = 5 + (IF CLUSTER THEN 9 ELSE 1)
              /\ SubSeq(argv, n - 4, n) = ArgumentsOf(k)
              /\ argv[n - 5] = RunScript
              /\ argv[1] = (IF CLUSTER THEN "qsub" ELSE RunScript)

\* The subtrees sweep has ended, run locally, after all 220 launches.
C9_Witness ==
    /\ script = "subtrees"
    /\ ~CLUSTER
    /\ spc = "done"
    /\ Len(launched) = 220

\* At most one sp.call is in progress and it is the latest launch.
OneAtATime ==
    /\ nreturned <= Len(launched)
    /\ Len(launched) <= nreturned + 1
    /\ (spc = "call") = (Len(launched) = nreturned + 1)
    /\ spc = "done" => nreturned = Total

\* A launch is issued only when every earlier sp.call has returned, and it
\* is the next combination in nested-loop order.
LaunchInOrder ==
    Len(launched') = Len(launched) + 1 =>
        /\ nreturned = Len(launched)
        /\ pos = IndicesOf(Len(launched) + 1)
        /\ SubSeq(launched', 1, Len(launched)) = launched

\* Whatever status sp.call returns, the loops go on to the next combination.
StatusIgnored ==
    nreturned' = nreturned + 1 =>
        /\ spc' = "loop"
        /\ pos' = IndicesOf(nreturned + 2)
        /\ launched' = launched

====
